---------------------------- MODULE Spec2Model ----------------------------
(***************************************************************************)
(* BudgetManager Pro backend: authentication, password lifecycle, account  *)
(* ownership and the in-memory rate limiter, as state machines.            *)
(*                                                                         *)
(* Time is the value of datetime.utcnow() in whole minutes.  A JWT is the  *)
(* record of its claims plus the validity of its signature under           *)
(* settings.SECRET_KEY; a password is the sequence of its characters; a    *)
(* bcrypt hash is a record that verifies exactly the password it was made  *)
(* from (the salt is left out); a password reset token is a positive       *)
(* number, drawn fresh on every request (secrets.token_urlsafe(32) repeats *)
(* itself with negligible probability), and 0 is SQL NULL.                 *)
(***************************************************************************)
EXTENDS Integers, Sequences, FiniteSets, TLC

VARIABLES
    users,      \* the users table: a sequence of rows, row i has id i
    accounts,   \* the accounts table: a set of rows
    clock,      \* datetime.utcnow(), in minutes
    nextToken,  \* the next value secrets.token_urlsafe() returns
    usedTokens, \* history: .reset, the reset tokens a successful reset has consumed;
                \* .refresh, the refresh tokens POST /refresh has accepted, with the time
    held,       \* the JWTs clients have received and kept
    req,        \* the request (or service call) handled last
    resp,       \* the response to it
    resets,     \* the POST /reset-password requests being handled at the same time
    requests,   \* RateLimiter._requests: identifier -> list of timestamps
    log,        \* history: the is_allowed calls that returned, in order of return
    calls,      \* the is_allowed calls in flight (concurrent specification)
    utcnow,     \* datetime.utcnow() as the rate limiter reads it, in seconds
    limit       \* the max_requests and window_seconds the callers pass

vars == <<users, accounts, clock, nextToken, usedTokens, held, req, resp, resets, requests, log, calls, utcnow, limit>>

rlVars == <<requests, log, calls, utcnow, limit>>

-----------------------------------------------------------------------------
(* Bounds of the model *)

MaxUsers == 2
MaxTicks == 1
MaxWeeks == 1
MaxHeld == 1
MaxResetTokens == 2
StartClock == 1350
TickMinutes == 30

(* settings *)
JWT_EXPIRE_MINUTES == 30
JWT_REFRESH_EXPIRE_DAYS == 7
RATE_LIMIT_PER_MINUTE == 60

MinutesPerDay == 24 * 60
RefreshMinutes == JWT_REFRESH_EXPIRE_DAYS * MinutesPerDay

NoTime == 0 - 1
NULL == 0

-----------------------------------------------------------------------------
(* Passwords and the password policy *)

Upper == {"A","B","C","D","E","F","G","H","I","J","K","L","M","N","O","P","Q","R","S","T","U","V","W","X","Y","Z"}
Lower == {"a","b","c","d","e","f","g","h","i","j","k","l","m","n","o","p","q","r","s","t","u","v","w","x","y","z"}
Digit == {"0","1","2","3","4","5","6","7","8","9"}
special_chars == {"!","@","#","$","%","^","&","*","(",")","_","+","-","=","[","]","{","}","|",";",":",",",".","<",">","?"}

AnyChar(p, S) == \E i \in 1..Len(p) : p[i] \in S

(* Mutant: the digit rule is checked after the special-character rule *)
validate_password_strength_special_first(password) ==
    IF Len(password) < 8
        THEN [is_valid |-> FALSE, message |-> "Password must be at least 8 characters long"]
    ELSE IF ~AnyChar(password, Upper)
        THEN [is_valid |-> FALSE, message |-> "Password must contain at least one uppercase letter"]
    ELSE IF ~AnyChar(password, Lower)
        THEN [is_valid |-> FALSE, message |-> "Password must contain at least one lowercase letter"]
    ELSE IF ~AnyChar(password, special_chars)
        THEN [is_valid |-> FALSE, message |-> "Password must contain at least one special character"]
    ELSE IF ~AnyChar(password, Digit)
        THEN [is_valid |-> FALSE, message |-> "Password must contain at least one digit"]
    ELSE [is_valid |-> TRUE, message |-> "Password is strong"]

validate_password_strength(password) ==
    IF Len(password) < 8
        THEN [is_valid |-> FALSE, message |-> "Password must be at least 8 characters long"]
    ELSE IF ~AnyChar(password, Upper)
        THEN [is_valid |-> FALSE, message |-> "Password must contain at least one uppercase letter"]
    ELSE IF ~AnyChar(password, Lower)
        THEN [is_valid |-> FALSE, message |-> "Password must contain at least one lowercase letter"]
    ELSE IF ~AnyChar(password, Digit)
        THEN [is_valid |-> FALSE, message |-> "Password must contain at least one digit"]
    ELSE IF ~AnyChar(password, special_chars)
        THEN [is_valid |-> FALSE, message |-> "Password must contain at least one special character"]
    ELSE [is_valid |-> TRUE, message |-> "Password is strong"]

get_password_hash(password) == [scheme |-> "bcrypt", of |-> password]

(* Mutant: every password verifies *)
verify_password_any(plain_password, hashed_password) == hashed_password.scheme = "bcrypt"

verify_password(plain_password, hashed_password) == hashed_password.of = plain_password

(* Field(..., min_length=8) of UserLogin, UserRegister, PasswordChange, PasswordReset *)
SchemaPasswordOk(password) == Len(password) >= 8

TestPassword == <<"T","e","s","t","P","a","s","s","1","!">>
Strong1 == <<"S","t","r","o","n","g","1","!">>
wrongpassword == <<"w","r","o","n","g","p","a","s","s","w","o","r","d">>
Weak1 == <<"W","e","a","k","1","!">>

Passwords == {TestPassword, Strong1, wrongpassword, Weak1}

Emails == {"test@example.com", "new@example.com"}

-----------------------------------------------------------------------------
(* JSON Web Tokens *)

Str(n) == <<"str", n>>
IntOf(s) == s[2]

JwtEncode(claims) == [kind |-> "jwt", exp |-> claims.exp, sub |-> claims.sub, type |-> claims.type, sig |-> "valid"]

create_access_token(subject, expires_delta) ==
    JwtEncode([exp |-> clock + expires_delta, sub |-> Str(subject), type |-> "access"])

create_refresh_token(subject) ==
    JwtEncode([exp |-> clock + RefreshMinutes, sub |-> Str(subject), type |-> "refresh"])

(* Mutant: the exp claim is not checked *)
JwtDecodes_no_exp(token) == token.kind = "jwt" /\ token.sig = "valid"

(* jose.jwt.decode: the signature, then exp against the clock of the moment *)
JwtDecodes(token) == token.kind = "jwt" /\ token.sig = "valid" /\ ~(token.exp < clock)

(* Mutant: the type claim is not checked *)
verify_token_any_type(token, token_type) ==
    IF ~JwtDecodes(token) THEN [ok |-> FALSE, sub |-> Str(0)]
    ELSE [ok |-> TRUE, sub |-> token.sub]

(* Mutant: a refresh token is revoked once POST /refresh has accepted it *)
verify_token_rotating(token, token_type) ==
    IF ~JwtDecodes(token) THEN [ok |-> FALSE, sub |-> Str(0)]
    ELSE IF token.type # token_type THEN [ok |-> FALSE, sub |-> Str(0)]
    ELSE IF \E e \in usedTokens.refresh : e.token = token THEN [ok |-> FALSE, sub |-> Str(0)]
    ELSE [ok |-> TRUE, sub |-> token.sub]

verify_token(token, token_type) ==
    IF ~JwtDecodes(token) THEN [ok |-> FALSE, sub |-> Str(0)]
    ELSE IF token.type # token_type THEN [ok |-> FALSE, sub |-> Str(0)]
    ELSE [ok |-> TRUE, sub |-> token.sub]

NoCredentials == [kind |-> "none"]
EmptyToken == [kind |-> "empty"]


(* A token whose payload was edited after signing: the signature no longer matches *)
Extended(t) == [t EXCEPT !.exp = @ + RefreshMinutes, !.sig = "forged"]

(* The JWTs of the response in flight, when it is a Token response *)
RespTokens == IF resp.status = 200 /\ resp.body.shape = "Token" THEN {resp.body.access_token, resp.body.refresh_token} ELSE {}

(* What a client can send in the Authorization header *)
Credentials == {NoCredentials, EmptyToken} \cup held \cup {Extended(t) : t \in held}

-----------------------------------------------------------------------------
(* Requests are handled one at a time: a handler runs when no response is in  *)
(* flight, and the client reads the response before the next request.        *)

NoRequest == [op |-> "none"]
NoResponse == [status |-> 0, detail |-> "", body |-> [shape |-> "none"]]

Idle == req = NoRequest

(* The requests that can be in handlers at the same time, each with the *)
(* database Session get_db gave it                                      *)
MaxInFlight == 2

Handlers == 1..MaxInFlight

(* No reset-password request in this slot *)
NoReset == [pc |-> "idle", token |-> 0, new_password |-> <<>>, user |-> 0, resp |-> NoResponse]

-----------------------------------------------------------------------------
(* Responses *)

HTTPException(status_code, detail) == [status |-> status_code, detail |-> detail, body |-> [shape |-> "detail"]]

RequestValidationError == HTTPException(422, "value_error")

InternalServerError == HTTPException(500, "Internal Server Error")

Ok(body) == [status |-> 200, detail |-> "", body |-> body]

Message(text) == Ok([shape |-> "message", message |-> text])

TokenBody(access, refresh) == [shape |-> "Token", access_token |-> access, refresh_token |-> refresh, token_type |-> "bearer", expires_in |-> JWT_EXPIRE_MINUTES * 60]

UserResponse(id, user) == [shape |-> "UserResponse", id |-> id, email |-> user.email, is_active |-> user.is_active, last_login |-> user.last_login]

-----------------------------------------------------------------------------
(* The users table *)

UserIds == DOMAIN users

(* db.query(User).filter(cond).first(): the row of least id, 0 when there is none *)
First(S) == IF S = {} THEN 0 ELSE CHOOSE i \in S : \A j \in S : i <= j

(* Mutant: the look-up by email finds nothing *)
UserByEmail_none(email) == First({i \in UserIds : users[i].email = email /\ i = 0})

UserByEmail(email) == First({i \in UserIds : users[i].email = email})

UserByResetToken(token) == First({i \in UserIds : users[i].password_reset_token # NULL /\ users[i].password_reset_token = token})

NewUser(email, password) == [email |-> email, password_hash |-> get_password_hash(password), is_active |-> TRUE, is_superuser |-> FALSE, last_login |-> NoTime, password_reset_token |-> NULL, password_reset_expires |-> NoTime]

test_user == NewUser("test@example.com", TestPassword)
test_superuser == [NewUser("admin@example.com", Strong1) EXCEPT !.is_superuser = TRUE]

-----------------------------------------------------------------------------
(* Dependencies (app.core.deps, app.core.security) *)

Rejected(status_code, detail) == [ok |-> FALSE, error |-> HTTPException(status_code, detail), id |-> 0]
Resolved(id) == [ok |-> TRUE, error |-> Ok([shape |-> "none"]), id |-> id]

(* Mutant: the is_active check is dropped *)
get_current_user_inactive_ok(credentials) ==
    IF credentials.kind = "none" THEN Rejected(401, "Authorization header missing")
    ELSE IF credentials.kind = "empty" THEN Rejected(401, "Token missing")
    ELSE LET v == verify_token(credentials, "access") IN
         IF ~v.ok THEN Rejected(401, "Could not validate credentials")
         ELSE IF IntOf(v.sub) \notin UserIds THEN Rejected(401, "User not found")
         ELSE Resolved(IntOf(v.sub))

get_current_user(credentials) ==
    IF credentials.kind = "none" THEN Rejected(401, "Authorization header missing")
    ELSE IF credentials.kind = "empty" THEN Rejected(401, "Token missing")
    ELSE LET v == verify_token(credentials, "access") IN
         IF ~v.ok THEN Rejected(401, "Could not validate credentials")
         ELSE IF IntOf(v.sub) \notin UserIds THEN Rejected(401, "User not found")
         ELSE IF ~users[IntOf(v.sub)].is_active THEN Rejected(401, "Inactive user")
         ELSE Resolved(IntOf(v.sub))

get_current_active_user(credentials) ==
    LET u == get_current_user(credentials) IN
    IF ~u.ok THEN u
    ELSE IF ~users[u.id].is_active THEN Rejected(400, "Inactive user")
    ELSE u

(* Mutant: the superuser check comes before the authentication failure *)
get_current_superuser_forbids_first(credentials) ==
    LET u == get_current_user(credentials) IN
    IF ~u.ok \/ ~users[u.id].is_superuser THEN Rejected(403, "Not enough permissions")
    ELSE u

get_current_superuser(credentials) ==
    LET u == get_current_user(credentials) IN
    IF ~u.ok THEN u
    ELSE IF ~users[u.id].is_superuser THEN Rejected(403, "Not enough permissions")
    ELSE u

(* get_optional_user returning None *)
NoIdentity == Resolved(0)

(* The body of get_optional_user's try block: an exception raised in it, the *)
(* identity it returns, or NoIdentity when it falls through                  *)
OptionalUserTry(credentials) ==
    IF credentials.kind = "empty" THEN Rejected(401, "Token missing")
    ELSE LET v == verify_token(credentials, "access") IN
         IF ~v.ok THEN Rejected(401, "Could not validate credentials")
         ELSE IF IntOf(v.sub) \in UserIds /\ users[IntOf(v.sub)].is_active THEN Resolved(IntOf(v.sub))
         ELSE NoIdentity

(* Mutant: the exceptions of the try block are not caught *)
get_optional_user_propagates(credentials) ==
    IF credentials.kind = "none" THEN NoIdentity
    ELSE OptionalUserTry(credentials)

get_optional_user(credentials) ==
    IF credentials.kind = "none" THEN NoIdentity
    ELSE IF ~OptionalUserTry(credentials).ok THEN NoIdentity
    ELSE OptionalUserTry(credentials)


-----------------------------------------------------------------------------
(* UserService *)

Hour(t) == (t \div 60) % 24

create_user(email, password) == Append(users, NewUser(email, password))

update_last_login(user_id) == [users EXCEPT ![user_id].last_login = clock]

(* setattr(db_user, field, value) for every field of user_update the row has *)
update_user(user_id, user_update) ==
    LET db_user == users[user_id] IN
    [users EXCEPT ![user_id] = [field \in DOMAIN db_user |-> IF field \in DOMAIN user_update THEN user_update[field] ELSE db_user[field]]]

(* Mutant: the users table has no unique index on email *)
IntegrityError_no_index(table) == FALSE

(* Column(String(255), unique=True) of User.email: the commit of a table in *)
(* which two rows have the same email raises IntegrityError                  *)
IntegrityError(table) == \E i, j \in DOMAIN table : i # j /\ table[i].email = table[j].email

(* Mutant: the new hash is not written *)
change_password_not_written(user_id, new_password) == users

change_password(user_id, new_password) == [users EXCEPT ![user_id].password_hash = get_password_hash(new_password)]

(* datetime.utcnow().replace(hour=datetime.utcnow().hour + 1) raises ValueError *)
(* when the hour is 23; nothing is committed then                              *)
ReplaceHourRaises == Hour(clock) + 1 > 23

set_password_reset_token(user_id, reset_token) ==
    [users EXCEPT ![user_id].password_reset_token = reset_token,
                  ![user_id].password_reset_expires = clock + 60]

(* Mutant: the reset token is left in place *)
reset_password_keeps_token(user_id, new_password) == [users EXCEPT ![user_id].password_hash = get_password_hash(new_password)]

reset_password(user_id, new_password) ==
    [users EXCEPT ![user_id].password_hash = get_password_hash(new_password),
                  ![user_id].password_reset_token = NULL,
                  ![user_id].password_reset_expires = NoTime]

deactivate_user(user_id) == [users EXCEPT ![user_id].is_active = FALSE]

activate_user(user_id) == [users EXCEPT ![user_id].is_active = TRUE]

-----------------------------------------------------------------------------
(* app/api/api_v1/endpoints/auth.py *)

NewTokens(user_id) == TokenBody(create_access_token(user_id, JWT_EXPIRE_MINUTES), create_refresh_token(user_id))

Register(email, password) ==
    /\ Idle
    /\ req' = [op |-> "register", email |-> email, password |-> password]
    /\ IF ~SchemaPasswordOk(password)
          THEN resp' = RequestValidationError /\ UNCHANGED users
       ELSE IF UserByEmail(email) # 0
          THEN resp' = HTTPException(400, "Email already registered") /\ UNCHANGED users
       ELSE IF ~validate_password_strength(password).is_valid
          THEN resp' = HTTPException(400, validate_password_strength(password).message) /\ UNCHANGED users
       ELSE /\ Len(users) < MaxUsers
            /\ users' = create_user(email, password)
            /\ resp' = Ok(UserResponse(Len(users'), users'[Len(users')]))
    /\ UNCHANGED <<accounts, clock, nextToken, held, usedTokens, rlVars, resets>>

Login(email, password) ==
    /\ Idle
    /\ req' = [op |-> "login", email |-> email, password |-> password]
    /\ LET user == UserByEmail(email) IN
       IF ~SchemaPasswordOk(password)
          THEN resp' = RequestValidationError /\ UNCHANGED users
       ELSE IF user = 0 \/ ~verify_password(password, users[user].password_hash)
          THEN resp' = HTTPException(401, "Incorrect email or password") /\ UNCHANGED users
       ELSE IF ~users[user].is_active
          THEN resp' = HTTPException(401, "User account is inactive") /\ UNCHANGED users
       ELSE /\ users' = update_last_login(user)
            /\ resp' = Ok(NewTokens(user))
    /\ UNCHANGED <<accounts, clock, nextToken, held, usedTokens, rlVars, resets>>

Refresh(credentials) ==
    /\ Idle
    /\ req' = [op |-> "refresh", credentials |-> credentials]
    /\ resp' = IF credentials.kind = "none" THEN HTTPException(401, "Authorization header missing")
               ELSE IF credentials.kind = "empty" THEN HTTPException(401, "Token missing")
               ELSE LET v == verify_token(credentials, "refresh") IN
                    IF ~v.ok THEN HTTPException(401, "Could not validate refresh token")
                    ELSE IF IntOf(v.sub) \notin UserIds \/ ~users[IntOf(v.sub)].is_active
                       THEN HTTPException(401, "User not found or inactive")
                    ELSE Ok(NewTokens(IntOf(v.sub)))
    /\ usedTokens' = IF resp'.status = 200 THEN [usedTokens EXCEPT !.refresh = @ \cup {[token |-> credentials, at |-> clock]}] ELSE usedTokens
    /\ UNCHANGED <<users, accounts, clock, nextToken, held, rlVars, resets>>

TokenVerify(credentials) ==
    /\ Idle
    /\ req' = [op |-> "token_verify", credentials |-> credentials]
    /\ LET current_user == get_current_user(credentials) IN
       resp' = IF ~current_user.ok THEN current_user.error
               ELSE Ok([shape |-> "TokenVerification", valid |-> TRUE, user_id |-> current_user.id, email |-> users[current_user.id].email])
    /\ UNCHANGED <<users, accounts, clock, nextToken, held, usedTokens, rlVars, resets>>

ChangePassword(credentials, current_password, new_password) ==
    /\ Idle
    /\ req' = [op |-> "change_password", credentials |-> credentials, current_password |-> current_password, new_password |-> new_password]
    /\ LET current_user == get_current_active_user(credentials) IN
       IF ~current_user.ok
          THEN resp' = current_user.error /\ UNCHANGED users
       ELSE IF ~SchemaPasswordOk(new_password)
          THEN resp' = RequestValidationError /\ UNCHANGED users
       ELSE IF ~verify_password(current_password, users[current_user.id].password_hash)
          THEN resp' = HTTPException(400, "Current password is incorrect") /\ UNCHANGED users
       ELSE IF ~validate_password_strength(new_password).is_valid
          THEN resp' = HTTPException(400, validate_password_strength(new_password).message) /\ UNCHANGED users
       ELSE /\ users' = change_password(current_user.id, new_password)
            /\ resp' = Message("Password changed successfully")
    /\ UNCHANGED <<accounts, clock, nextToken, held, usedTokens, rlVars, resets>>

(* The response of POST /request-password-reset for `email`, were it sent now *)
RequestPasswordResetResponse(email) ==
    IF UserByEmail(email) = 0 THEN Message("If the email exists, a reset link has been sent")
    ELSE IF ReplaceHourRaises THEN InternalServerError
    ELSE Ok([shape |-> "reset", message |-> "Password reset token generated", reset_token |-> nextToken])

RequestPasswordReset(email) ==
    /\ Idle
    /\ req' = [op |-> "request_password_reset", email |-> email]
    /\ resp' = RequestPasswordResetResponse(email)
    /\ IF UserByEmail(email) = 0 \/ ReplaceHourRaises
          THEN UNCHANGED <<users, nextToken>>
          ELSE /\ nextToken <= MaxResetTokens
               /\ users' = set_password_reset_token(UserByEmail(email), nextToken)
               /\ nextToken' = nextToken + 1
    /\ UNCHANGED <<accounts, clock, held, usedTokens, rlVars, resets>>

ResetPassword(token, new_password) ==
    /\ Idle
    /\ req' = [op |-> "reset_password", token |-> token, new_password |-> new_password]
    /\ LET user == UserByResetToken(token) IN
       IF ~SchemaPasswordOk(new_password)
          THEN resp' = RequestValidationError /\ UNCHANGED <<users, usedTokens>>
       ELSE IF user = 0
          THEN resp' = HTTPException(400, "Invalid reset token") /\ UNCHANGED <<users, usedTokens>>
       ELSE IF ~validate_password_strength(new_password).is_valid
          THEN resp' = HTTPException(400, validate_password_strength(new_password).message) /\ UNCHANGED <<users, usedTokens>>
       ELSE /\ users' = reset_password(user, new_password)
            /\ resp' = Message("Password reset successfully")
            /\ usedTokens' = [usedTokens EXCEPT !.reset = @ \cup {token}]
    /\ UNCHANGED <<accounts, clock, nextToken, held, rlVars, resets>>

(* UserService.deactivate_user / activate_user, called on the service *)
DeactivateUser(user_id) ==
    /\ Idle
    /\ req' = [op |-> "deactivate_user", user_id |-> user_id]
    /\ IF user_id \notin UserIds
          THEN resp' = HTTPException(404, "User not found") /\ UNCHANGED users
          ELSE users' = deactivate_user(user_id) /\ resp' = Ok([shape |-> "User", id |-> user_id])
    /\ UNCHANGED <<accounts, clock, nextToken, held, usedTokens, rlVars, resets>>

ActivateUser(user_id) ==
    /\ Idle
    /\ req' = [op |-> "activate_user", user_id |-> user_id]
    /\ IF user_id \notin UserIds
          THEN resp' = HTTPException(404, "User not found") /\ UNCHANGED users
          ELSE users' = activate_user(user_id) /\ resp' = Ok([shape |-> "User", id |-> user_id])
    /\ UNCHANGED <<accounts, clock, nextToken, held, usedTokens, rlVars, resets>>

(* GET /me *)
GetCurrentUserInfo(credentials) ==
    /\ Idle
    /\ req' = [op |-> "get_current_user_info", credentials |-> credentials]
    /\ LET current_user == get_current_active_user(credentials) IN
       resp' = IF ~current_user.ok THEN current_user.error
               ELSE Ok(UserResponse(current_user.id, users[current_user.id]))
    /\ UNCHANGED <<users, accounts, clock, nextToken, held, usedTokens, rlVars, resets>>

(* GET /metrics of the monitoring router: Depends(get_current_superuser) *)
GetMetrics(credentials) ==
    /\ Idle
    /\ req' = [op |-> "get_metrics", credentials |-> credentials]
    /\ LET current_user == get_current_superuser(credentials) IN
       resp' = IF ~current_user.ok THEN current_user.error
               ELSE Ok([shape |-> "metrics"])
    /\ UNCHANGED <<users, accounts, clock, nextToken, held, usedTokens, rlVars, resets>>

(* A request to an endpoint that declares Depends(get_optional_user) and *)
(* answers with the identity it was given, 0 for None                    *)
OptionalUser(credentials) ==
    /\ Idle
    /\ req' = [op |-> "get_optional_user", credentials |-> credentials]
    /\ LET current_user == get_optional_user(credentials) IN
       resp' = IF ~current_user.ok THEN current_user.error
               ELSE Ok([shape |-> "OptionalUser", id |-> current_user.id])
    /\ UNCHANGED <<users, accounts, clock, nextToken, held, usedTokens, rlVars, resets>>

(* POST /logout: the server keeps no record of tokens *)
Logout(credentials) ==
    /\ Idle
    /\ req' = [op |-> "logout", credentials |-> credentials]
    /\ LET current_user == get_current_active_user(credentials) IN
       resp' = IF ~current_user.ok THEN current_user.error
               ELSE Message("Successfully logged out")
    /\ UNCHANGED <<users, accounts, clock, nextToken, held, usedTokens, rlVars, resets>>

(* Mutant: the password of the body is hashed into the update *)
UpdateData_with_password(email, password) == [email |-> email, password_hash |-> get_password_hash(password)]

(* user_update.model_dump(exclude={"password"}), the columns of the model *)
UpdateData(email, password) == [email |-> email]

(* PUT /me with a UserCreate body *)
UpdateCurrentUser(credentials, email, password) ==
    /\ Idle
    /\ req' = [op |-> "update_current_user", credentials |-> credentials, email |-> email, password |-> password]
    /\ LET current_user == get_current_active_user(credentials) IN
       IF ~current_user.ok
          THEN resp' = current_user.error /\ UNCHANGED users
       ELSE IF ~SchemaPasswordOk(password)
          THEN resp' = RequestValidationError /\ UNCHANGED users
       ELSE IF IntegrityError(update_user(current_user.id, UpdateData(email, password)))
          THEN resp' = InternalServerError /\ UNCHANGED users
       ELSE /\ users' = update_user(current_user.id, UpdateData(email, password))
            /\ resp' = Ok(UserResponse(current_user.id, users'[current_user.id]))
    /\ UNCHANGED <<accounts, clock, nextToken, held, usedTokens, rlVars, resets>>

-----------------------------------------------------------------------------
(* The environment: time passes, clients keep the tokens they are sent *)

TicksTaken == ((clock - StartClock) % RefreshMinutes) \div TickMinutes
WeeksTaken == (clock - StartClock) \div RefreshMinutes

Tick ==
    /\ Idle
    /\ TicksTaken < MaxTicks
    /\ clock' = clock + TickMinutes
    /\ UNCHANGED <<users, accounts, nextToken, held, req, resp, usedTokens, rlVars, resets>>

TickWeek ==
    /\ Idle
    /\ WeeksTaken < MaxWeeks
    /\ clock' = clock + RefreshMinutes
    /\ UNCHANGED <<users, accounts, nextToken, held, req, resp, usedTokens, rlVars, resets>>

(* The client reads the response and keeps at most MaxHeld of the tokens it has *)
ClientReads ==
    /\ ~Idle
    /\ req' = NoRequest
    /\ resp' = NoResponse
    /\ \E kept \in SUBSET (held \cup RespTokens) :
          /\ Cardinality(kept) <= MaxHeld
          /\ held' = kept
    /\ UNCHANGED <<users, accounts, clock, nextToken, usedTokens, rlVars, resets>>

-----------------------------------------------------------------------------
(* Specification of the authentication endpoints *)

MaxThreads == 2

Threads == 1..MaxThreads

(* A thread that is not inside is_allowed *)
NoCall == [pc |-> "idle", identifier |-> "", now |-> 0, cleaned |-> <<>>]

(* RateLimiter.__init__, and is_allowed's default arguments *)
InitLimiter ==
    /\ requests = <<>>
    /\ log = <<>>
    /\ calls = [th \in Threads |-> NoCall]
    /\ utcnow = 0
    /\ limit = [max_requests |-> RATE_LIMIT_PER_MINUTE, window_seconds |-> 60]

Init ==
    /\ users = <<test_user>>
    /\ clock = StartClock
    /\ nextToken = 1
    /\ usedTokens = [reset |-> {}, refresh |-> {}]
    /\ held = {}
    /\ req = NoRequest
    /\ resp = NoResponse
    /\ resets = [h \in Handlers |-> NoReset]
    /\ accounts = {}
    /\ InitLimiter

Next ==
    \/ \E email \in Emails, password \in Passwords : Register(email, password)
    \/ \E email \in Emails, password \in Passwords : Login(email, password)
    \/ \E credentials \in Credentials, current_password, new_password \in Passwords : ChangePassword(credentials, current_password, new_password)
    \/ \E email \in Emails : RequestPasswordReset(email)
    \/ \E token \in 1..MaxResetTokens, new_password \in Passwords : ResetPassword(token, new_password)
    \/ Tick
    \/ ClientReads

Spec == Init /\ [][Next]_vars

-----------------------------------------------------------------------------
(* Specification of token issuance and verification *)

NextTokens ==
    \/ \E email \in Emails, password \in Passwords : Login(email, password)
    \/ \E credentials \in Credentials : Refresh(credentials)
    \/ \E credentials \in Credentials : TokenVerify(credentials)
    \/ \E user_id \in 1..MaxUsers : DeactivateUser(user_id)
    \/ \E user_id \in 1..MaxUsers : ActivateUser(user_id)
    \/ Tick
    \/ TickWeek
    \/ ClientReads

SpecTokens == Init /\ [][NextTokens]_vars


-----------------------------------------------------------------------------
(* AccountService (app/services/account_service.py).  An account row keeps   *)
(* the columns the ownership and naming rules read: id, user_id, name,       *)
(* is_active.  None is the row with id 0.                                    *)

MaxAccounts == 2

Names == {"Checking", "Savings"}

None == [id |-> 0, user_id |-> 0, name |-> "", is_active |-> FALSE]

FirstRow(S) == IF S = {} THEN None ELSE CHOOSE a \in S : \A b \in S : a.id <= b.id

(* INTEGER PRIMARY KEY of SQLite: one more than the largest id in the table *)
NextAccountId == IF accounts = {} THEN 1 ELSE 1 + (CHOOSE i \in {a.id : a \in accounts} : \A b \in accounts : b.id <= i)

(* Mutant: the owner filter is dropped *)
get_account_any_owner(account_id, user_id) == FirstRow({a \in accounts : a.id = account_id})

(* Mutant: the owner filter is bypassed for superusers *)
get_account_superuser_bypass(account_id, user_id) ==
    FirstRow({a \in accounts : a.id = account_id /\ (a.user_id = user_id \/ users[user_id].is_superuser)})

get_account(account_id, user_id) == FirstRow({a \in accounts : a.id = account_id /\ a.user_id = user_id})

(* Mutant: a superuser lists every account *)
get_accounts_superuser_all(user_id) == {a \in accounts : a.user_id = user_id \/ users[user_id].is_superuser}

get_accounts(user_id) == {a \in accounts : a.user_id = user_id}

DuplicateName(user_id, name, except_id) ==
    \E a \in accounts : a.user_id = user_id /\ a.name = name /\ a.is_active /\ a.id # except_id

(* setattr(account, field, value) for the fields the AccountUpdate sets *)
Updated(account, account_data) ==
    [account EXCEPT !.name = IF "name" \in DOMAIN account_data THEN account_data.name ELSE @,
                    !.is_active = IF "is_active" \in DOMAIN account_data THEN account_data.is_active ELSE @]

AccountUpdates == {[name |-> n] : n \in Names} \cup {[is_active |-> b] : b \in BOOLEAN} \cup {[name |-> n, is_active |-> b] : n \in Names, b \in BOOLEAN}

AccountResponse(account) == [shape |-> "AccountResponse", id |-> account.id, name |-> account.name, is_active |-> account.is_active]

AccountNotFound == HTTPException(404, "Account not found")

-----------------------------------------------------------------------------
(* app/api/v1/endpoints/accounts.py, the router api.py includes *)

CreateAccount(credentials, name) ==
    /\ Idle
    /\ req' = [op |-> "create_account", credentials |-> credentials, name |-> name]
    /\ LET current_user == get_current_user(credentials) IN
       IF ~current_user.ok
          THEN resp' = current_user.error /\ UNCHANGED accounts
       ELSE IF DuplicateName(current_user.id, name, 0)
          THEN resp' = HTTPException(400, "Account with name already exists") /\ UNCHANGED accounts
       ELSE /\ Cardinality(accounts) < MaxAccounts
            /\ accounts' = accounts \cup {[id |-> NextAccountId, user_id |-> current_user.id, name |-> name, is_active |-> TRUE]}
            /\ resp' = [status |-> 201, detail |-> "", body |-> AccountResponse([id |-> NextAccountId, user_id |-> current_user.id, name |-> name, is_active |-> TRUE])]
    /\ UNCHANGED <<users, clock, nextToken, held, usedTokens, rlVars, resets>>

GetAccounts(credentials) ==
    /\ Idle
    /\ req' = [op |-> "get_accounts", credentials |-> credentials]
    /\ LET current_user == get_current_user(credentials) IN
       resp' = IF ~current_user.ok THEN current_user.error
               ELSE Ok([shape |-> "AccountSummaryList", ids |-> {a.id : a \in get_accounts(current_user.id)}])
    /\ UNCHANGED <<users, accounts, clock, nextToken, held, usedTokens, rlVars, resets>>

GetAccount(credentials, account_id) ==
    /\ Idle
    /\ req' = [op |-> "get_account", credentials |-> credentials, account_id |-> account_id]
    /\ LET current_user == get_current_user(credentials) IN
       resp' = IF ~current_user.ok THEN current_user.error
               ELSE IF get_account(account_id, current_user.id) = None THEN AccountNotFound
               ELSE Ok(AccountResponse(get_account(account_id, current_user.id)))
    /\ UNCHANGED <<users, accounts, clock, nextToken, held, usedTokens, rlVars, resets>>

(* AccountService.update_account, then the endpoint's translation of None *)
UpdateOutcome(user_id, account_id, account_data) ==
    LET account == get_account(account_id, user_id) IN
    IF account = None
       THEN [resp |-> AccountNotFound, accounts |-> accounts]
    ELSE IF "name" \in DOMAIN account_data /\ account_data.name # account.name /\ DuplicateName(user_id, account_data.name, account_id)
       THEN [resp |-> HTTPException(400, "Account with name already exists"), accounts |-> accounts]
    ELSE [resp |-> Ok(AccountResponse(Updated(account, account_data))), accounts |-> (accounts \ {account}) \cup {Updated(account, account_data)}]

UpdateAccount(credentials, account_id, account_data) ==
    /\ Idle
    /\ req' = [op |-> "update_account", credentials |-> credentials, account_id |-> account_id, account_data |-> account_data]
    /\ LET current_user == get_current_user(credentials) IN
       IF ~current_user.ok
          THEN resp' = current_user.error /\ UNCHANGED accounts
          ELSE /\ resp' = UpdateOutcome(current_user.id, account_id, account_data).resp
               /\ accounts' = UpdateOutcome(current_user.id, account_id, account_data).accounts
    /\ UNCHANGED <<users, clock, nextToken, held, usedTokens, rlVars, resets>>

DeleteAccount(credentials, account_id, hard_delete) ==
    /\ Idle
    /\ req' = [op |-> "delete_account", credentials |-> credentials, account_id |-> account_id, hard_delete |-> hard_delete]
    /\ LET current_user == get_current_user(credentials) IN
       IF ~current_user.ok
          THEN resp' = current_user.error /\ UNCHANGED accounts
       ELSE LET account == get_account(account_id, current_user.id) IN
            IF account = None
               THEN resp' = AccountNotFound /\ UNCHANGED accounts
            ELSE IF hard_delete
               THEN /\ accounts' = accounts \ {account}
                    /\ resp' = Message("Account permanently deleted")
            ELSE /\ accounts' = (accounts \ {account}) \cup {[account EXCEPT !.is_active = FALSE]}
                 /\ resp' = Message("Account deactivated successfully")
    /\ UNCHANGED <<users, clock, nextToken, held, usedTokens, rlVars, resets>>

ActivateAccount(credentials, account_id) ==
    /\ Idle
    /\ req' = [op |-> "activate_account", credentials |-> credentials, account_id |-> account_id]
    /\ LET current_user == get_current_user(credentials) IN
       IF ~current_user.ok
          THEN resp' = current_user.error /\ UNCHANGED accounts
       ELSE LET outcome == UpdateOutcome(current_user.id, account_id, [is_active |-> TRUE]) IN
            /\ resp' = IF outcome.resp.status = 200 THEN Message("Account activated successfully") ELSE outcome.resp
            /\ accounts' = outcome.accounts
    /\ UNCHANGED <<users, clock, nextToken, held, usedTokens, rlVars, resets>>

-----------------------------------------------------------------------------
(* Specification of the account endpoints: the database holds the regular  *)
(* user and the superuser of the test fixtures                             *)

AccountEmails == {"test@example.com", "admin@example.com"}
LoginPasswords == {TestPassword, Strong1}

InitAccounts ==
    /\ users = <<test_user, test_superuser>>
    /\ clock = StartClock
    /\ nextToken = 1
    /\ usedTokens = [reset |-> {}, refresh |-> {}]
    /\ held = {}
    /\ req = NoRequest
    /\ resp = NoResponse
    /\ resets = [h \in Handlers |-> NoReset]
    /\ accounts = {}
    /\ InitLimiter

NextAccounts ==
    \/ \E email \in AccountEmails, password \in LoginPasswords : Login(email, password)
    \/ \E credentials \in Credentials, name \in Names : CreateAccount(credentials, name)
    \/ \E credentials \in Credentials : GetAccounts(credentials)
    \/ \E credentials \in Credentials, account_id \in 1..(MaxAccounts + 1) : GetAccount(credentials, account_id)
    \/ \E credentials \in Credentials, account_id \in 1..(MaxAccounts + 1), account_data \in AccountUpdates : UpdateAccount(credentials, account_id, account_data)
    \/ \E credentials \in Credentials, account_id \in 1..(MaxAccounts + 1), hard_delete \in BOOLEAN : DeleteAccount(credentials, account_id, hard_delete)
    \/ \E credentials \in Credentials, account_id \in 1..(MaxAccounts + 1) : ActivateAccount(credentials, account_id)
    \/ ClientReads

SpecAccounts == InitAccounts /\ [][NextAccounts]_vars

-----------------------------------------------------------------------------
(* Specification of the authentication gateway: the three dependencies,    *)
(* with the regular user and the superuser in the database                 *)

(* A validly signed access token whose subject is the id of no row: the    *)
(* SECRET_KEY outlives a database that was recreated                       *)
StaleToken == create_access_token(Len(users) + 1, JWT_EXPIRE_MINUTES)

GatewayCredentials == Credentials \cup {StaleToken}

NextGateway ==
    \/ \E email \in AccountEmails, password \in LoginPasswords : Login(email, password)
    \/ \E credentials \in GatewayCredentials : GetCurrentUserInfo(credentials)
    \/ \E credentials \in GatewayCredentials : GetMetrics(credentials)
    \/ \E credentials \in GatewayCredentials : OptionalUser(credentials)
    \/ \E user_id \in UserIds : DeactivateUser(user_id)
    \/ \E user_id \in UserIds : ActivateUser(user_id)
    \/ Tick
    \/ TickWeek
    \/ ClientReads

SpecGateway == InitAccounts /\ [][NextGateway]_vars

-----------------------------------------------------------------------------
(* Properties of token issuance and verification (SpecTokens) *)

OtherType(type) == IF type = "access" THEN "refresh" ELSE "access"

Verified(subject) == [ok |-> TRUE, sub |-> subject]

(* The tokens the server has minted that a client still has or is being sent *)
Minted == held \cup RespTokens

(* C1: a token's type is enforced in both directions.  For every subject s, *)
(* an access token minted for s verifies as "access" and yields s, and is   *)
(* rejected as "refresh"; a refresh token minted for s verifies as          *)
(* "refresh" and yields s, and is rejected as "access".  POST /refresh      *)
(* answers 401 to every access token, and the access-protected dependency   *)
(* get_current_user answers 401 to every refresh token.                     *)
C1_TokenTypeEnforced ==
    /\ \A s \in 1..MaxUsers :
          /\ verify_token(create_access_token(s, JWT_EXPIRE_MINUTES), "access") = Verified(Str(s))
          /\ ~verify_token(create_access_token(s, JWT_EXPIRE_MINUTES), "refresh").ok
          /\ verify_token(create_refresh_token(s), "refresh") = Verified(Str(s))
          /\ ~verify_token(create_refresh_token(s), "access").ok
    /\ \A t \in Minted : ~verify_token(t, OtherType(t.type)).ok
    /\ (req.op = "refresh" /\ req.credentials.kind = "jwt" /\ req.credentials.type = "access")
          => resp.status = 401
    /\ (req.op = "token_verify" /\ req.credentials.kind = "jwt" /\ req.credentials.type = "refresh")
          => resp.status = 401

(* C1 witness: a validly signed, unexpired refresh token of an active user was *)
(* presented to GET /token/verify and answered 401                            *)
C1_Witness ==
    /\ req.op = "token_verify"
    /\ req.credentials.kind = "jwt"
    /\ req.credentials.sig = "valid"
    /\ req.credentials.type = "refresh"
    /\ ~(req.credentials.exp < clock)
    /\ users[IntOf(req.credentials.sub)].is_active
    /\ resp = HTTPException(401, "Could not validate credentials")

(* C2: expiry is decided by the clock at verification time.  A minted token *)
(* presented when the clock is past its exp claim is rejected (verify_token *)
(* returns None, the endpoints answer 401) although its signature and type  *)
(* are valid; presented when the clock is not past its exp, it verifies and *)
(* yields its subject.                                                      *)
C2_ExpiryAtVerification ==
    /\ \A t \in Minted :
          /\ t.exp < clock => ~verify_token(t, t.type).ok
          /\ ~(t.exp < clock) => verify_token(t, t.type) = Verified(t.sub)
    /\ (req.op \in {"token_verify", "refresh"} /\ req.credentials.kind = "jwt" /\ req.credentials.exp < clock)
          => resp.status = 401

(* C2 witness: an access token with a valid signature, minted for an active *)
(* user, was presented to GET /token/verify after its exp and answered 401  *)
C2_Witness ==
    /\ req.op = "token_verify"
    /\ req.credentials.kind = "jwt"
    /\ req.credentials.sig = "valid"
    /\ req.credentials.type = "access"
    /\ req.credentials.exp < clock
    /\ users[IntOf(req.credentials.sub)].is_active
    /\ resp = HTTPException(401, "Could not validate credentials")


-----------------------------------------------------------------------------
(* Properties of login and of the password reset flow (Spec) *)

ResponseView(r) == <<r.status, r.detail, r.body.shape, IF r.body.shape \in {"message", "reset"} THEN r.body.message ELSE "">>

(* C7: POST /request-password-reset answers the same (status, message,     *)
(* fields present) for an email of a registered identity as for an email   *)
(* of none.                                                                *)
C7_ResetRequestUniform ==
    req.op = "request_password_reset" =>
        \A email \in Emails : ResponseView(resp) = ResponseView(RequestPasswordResetResponse(email))

-----------------------------------------------------------------------------
(* Properties of the account endpoints (SpecAccounts) *)

AccountIds == 1..(MaxAccounts + 1)

OwnedByAnother(account_id, user_id) == \E a \in accounts : a.id = account_id /\ a.user_id # user_id

OwnedBy(account_id, user_id) == \E a \in accounts : a.id = account_id /\ a.user_id = user_id

(* A step of one of the routed endpoints that address one account by its id *)
ReadStep(credentials, account_id) == GetAccount(credentials, account_id)
UpdateStep(credentials, account_id) == \E account_data \in AccountUpdates : UpdateAccount(credentials, account_id, account_data)
DeleteStep(credentials, account_id) == \E hard_delete \in BOOLEAN : DeleteAccount(credentials, account_id, hard_delete)
ActivateStep(credentials, account_id) == ActivateAccount(credentials, account_id)

(* C3: on GET, PUT, DELETE /accounts/{id} and PATCH /accounts/{id}/activate, *)
(* a request of an authenticated non-superuser identity for an account that  *)
(* another identity owns answers 404 'Account not found', exactly as for an  *)
(* id that does not exist (never 403), and the accounts table is unchanged.  *)
C3_NonOwnerNotFound ==
    [][\A credentials \in Credentials, account_id \in AccountIds :
          ( /\ get_current_user(credentials).ok
            /\ ~users[get_current_user(credentials).id].is_superuser
            /\ ~OwnedBy(account_id, get_current_user(credentials).id)
            /\ \/ ReadStep(credentials, account_id)
               \/ UpdateStep(credentials, account_id)
               \/ DeleteStep(credentials, account_id)
               \/ ActivateStep(credentials, account_id) )
          => /\ resp' = AccountNotFound
             /\ accounts' = accounts]_vars

(* The identity a request in flight was authenticated as (0: none) *)
Requester == IF "credentials" \in DOMAIN req /\ get_current_user(req.credentials).ok THEN get_current_user(req.credentials).id ELSE 0

(* C3 witness: a non-superuser asked to update an account that exists and *)
(* belongs to another identity, and was answered 404                      *)
C3_Witness ==
    /\ req.op = "update_account"
    /\ Requester # 0
    /\ ~users[Requester].is_superuser
    /\ OwnedByAnother(req.account_id, Requester)
    /\ resp = AccountNotFound

(* C4 as claimed: a superuser's read, update or delete of an account owned *)
(* by another identity succeeds                                            *)
C4_SuperuserBypass ==
    [][\A credentials \in Credentials, account_id \in AccountIds :
          ( /\ get_current_user(credentials).ok
            /\ users[get_current_user(credentials).id].is_superuser
            /\ OwnedByAnother(account_id, get_current_user(credentials).id)
            /\ \/ ReadStep(credentials, account_id)
               \/ UpdateAccount(credentials, account_id, [is_active |-> TRUE])
               \/ DeleteStep(credentials, account_id) )
          => resp'.status = 200]_vars

(* C4 as amended: the owner filter is not bypassed for superusers.  A        *)
(* superuser's read, update or delete of an account owned by another         *)
(* identity answers 404 'Account not found' and leaves the accounts table    *)
(* unchanged; its read or delete of an account it owns succeeds.             *)
C4_SuperuserOwnOnly ==
    [][\A credentials \in Credentials, account_id \in AccountIds :
          ( /\ get_current_user(credentials).ok
            /\ users[get_current_user(credentials).id].is_superuser )
          => /\ ( /\ OwnedByAnother(account_id, get_current_user(credentials).id)
                  /\ \/ ReadStep(credentials, account_id)
                     \/ UpdateStep(credentials, account_id)
                     \/ DeleteStep(credentials, account_id) )
                => (resp' = AccountNotFound /\ accounts' = accounts)
             /\ ( /\ OwnedBy(account_id, get_current_user(credentials).id)
                  /\ \/ ReadStep(credentials, account_id)
                     \/ DeleteStep(credentials, account_id) )
                => resp'.status = 200]_vars

(* C4 witness: a superuser asked to read an account that exists and belongs *)
(* to another identity, and was answered 404                                *)
C4_Witness ==
    /\ req.op = "get_account"
    /\ Requester # 0
    /\ users[Requester].is_superuser
    /\ OwnedByAnother(req.account_id, Requester)
    /\ resp = AccountNotFound

-----------------------------------------------------------------------------
(* RateLimiter *)

MaxNow == 3
MaxCalls == 4
MaxRequests == 2
MaxWindow == 2

Identifiers == {"10.0.0.1", "10.0.0.2"}

appVars == <<users, accounts, clock, nextToken, usedTokens, held, req, resp, resets>>

(* [req_time for req_time in entries if req_time > window_start] *)
CleanOldEntries(entries, window_start) == LET Keep(req_time) == req_time > window_start IN SelectSeq(entries, Keep)

LimitReached_off_by_one(entries, max_requests) == Len(entries) > max_requests

(* len(self._requests[identifier]) >= max_requests *)
LimitReached(entries, max_requests) == Len(entries) >= max_requests

(* self._requests[identifier] = entries *)
Store(identifier, entries) == [i \in DOMAIN requests \cup {identifier} |-> IF i = identifier THEN entries ELSE requests[i]]

(* The list the clean-up assigns: the entries newer than the window start, or [] *)
Cleaned(identifier, window_start) == IF identifier \in DOMAIN requests THEN CleanOldEntries(requests[identifier], window_start) ELSE <<>>

Returned(identifier, at, allowed) == Append(log, [identifier |-> identifier, at |-> at, allowed |-> allowed])

InFlight == {th \in Threads : calls[th].pc # "idle"}

(* One whole call of is_allowed, no other call running meanwhile *)
is_allowed(identifier) ==
    LET window_start == utcnow - limit.window_seconds
        cleaned == Cleaned(identifier, window_start)
        allowed == ~LimitReached(cleaned, limit.max_requests)
    IN  /\ InFlight = {}
        /\ Len(log) < MaxCalls
        /\ requests' = Store(identifier, IF allowed THEN Append(cleaned, utcnow) ELSE cleaned)
        /\ log' = Returned(identifier, utcnow, allowed)
        /\ UNCHANGED <<calls, utcnow, limit, appVars>>

(* Time passes *)
Advance ==
    /\ utcnow < MaxNow
    /\ utcnow' = utcnow + 1
    /\ UNCHANGED <<requests, log, calls, limit, appVars>>

(* The steps of one call of is_allowed by thread th, other threads running *)
(* between them: the interpreter may switch threads between any two        *)
(* bytecodes, and the class takes no lock.                                  *)

(* now = datetime.utcnow(); window_start = now - timedelta(...) *)
Call(th, identifier) ==
    /\ calls[th].pc = "idle"
    /\ Len(log) + Cardinality(InFlight) < MaxCalls
    /\ calls' = [calls EXCEPT ![th] = [pc |-> "clean", identifier |-> identifier, now |-> utcnow, cleaned |-> <<>>]]
    /\ UNCHANGED <<requests, log, utcnow, limit, appVars>>

(* the right-hand side of the clean-up: the list comprehension, or [] *)
Clean(th) ==
    /\ calls[th].pc = "clean"
    /\ calls' = [calls EXCEPT ![th].pc = "store", ![th].cleaned = Cleaned(calls[th].identifier, calls[th].now - limit.window_seconds)]
    /\ UNCHANGED <<requests, log, utcnow, limit, appVars>>

(* the assignment of the clean-up *)
StoreCleaned(th) ==
    /\ calls[th].pc = "store"
    /\ requests' = Store(calls[th].identifier, calls[th].cleaned)
    /\ calls' = [calls EXCEPT ![th].pc = "check"]
    /\ UNCHANGED <<log, utcnow, limit, appVars>>

(* if len(...) >= max_requests: return False *)
Check(th) ==
    /\ calls[th].pc = "check"
    /\ IF LimitReached(requests[calls[th].identifier], limit.max_requests)
       THEN /\ log' = Returned(calls[th].identifier, calls[th].now, FALSE)
            /\ calls' = [calls EXCEPT ![th] = NoCall]
       ELSE /\ calls' = [calls EXCEPT ![th].pc = "append"]
            /\ UNCHANGED log
    /\ UNCHANGED <<requests, utcnow, limit, appVars>>

(* self._requests[identifier].append(now); return True *)
AppendNow(th) ==
    /\ calls[th].pc = "append"
    /\ requests' = Store(calls[th].identifier, Append(requests[calls[th].identifier], calls[th].now))
    /\ log' = Returned(calls[th].identifier, calls[th].now, TRUE)
    /\ calls' = [calls EXCEPT ![th] = NoCall]
    /\ UNCHANGED <<utcnow, limit, appVars>>

Limits == [max_requests : 1..MaxRequests, window_seconds : 1..MaxWindow]

InitRateLimiter ==
    /\ users = <<test_user>>
    /\ clock = StartClock
    /\ nextToken = 1
    /\ usedTokens = [reset |-> {}, refresh |-> {}]
    /\ held = {}
    /\ req = NoRequest
    /\ resp = NoResponse
    /\ resets = [h \in Handlers |-> NoReset]
    /\ accounts = {}
    /\ requests = <<>>
    /\ log = <<>>
    /\ calls = [th \in Threads |-> NoCall]
    /\ utcnow = 0
    /\ limit \in Limits

(* Calls one after the other *)
NextRateLimiter ==
    \/ \E identifier \in Identifiers : is_allowed(identifier)
    \/ Advance

SpecRateLimiter == InitRateLimiter /\ [][NextRateLimiter]_vars

(* Calls from several threads *)
NextThreads ==
    \/ \E th \in Threads, identifier \in Identifiers : Call(th, identifier)
    \/ \E th \in Threads : Clean(th)
    \/ \E th \in Threads : StoreCleaned(th)
    \/ \E th \in Threads : Check(th)
    \/ \E th \in Threads : AppendNow(th)
    \/ Advance

SpecThreads == InitRateLimiter /\ [][NextThreads]_vars

-----------------------------------------------------------------------------
(* Properties of the rate limiter (SpecRateLimiter, SpecThreads) *)

(* The returned calls of `identifier` that were admitted at a time in (lo, hi] *)
AdmittedIn(identifier, lo, hi) == {k \in DOMAIN log : log[k].identifier = identifier /\ log[k].allowed /\ lo < log[k].at /\ log[k].at <= hi}

(* The entries of the identifier's window that are newer than lo *)
Kept(identifier, lo) == IF identifier \in DOMAIN requests THEN Len(CleanOldEntries(requests[identifier], lo)) ELSE 0

(* C9: with calls made one after the other at non-decreasing times and a    *)
(* fixed max_requests and window_seconds, for every identifier the calls    *)
(* admitted within any rolling window (t - window_seconds, t] never number  *)
(* more than max_requests, and a call is admitted exactly when fewer than   *)
(* max_requests earlier calls were admitted within the window that ends at  *)
(* it: from an empty window the first max_requests calls within one window  *)
(* are admitted and the next one within it is denied.                       *)
C9_SlidingWindow ==
    \A identifier \in Identifiers :
       /\ \A t \in 0..utcnow : Cardinality(AdmittedIn(identifier, t - limit.window_seconds, t)) <= limit.max_requests
       /\ \A k \in DOMAIN log :
             log[k].identifier = identifier
             => (log[k].allowed <=> Cardinality({j \in AdmittedIn(identifier, log[k].at - limit.window_seconds, log[k].at) : j < k}) < limit.max_requests)

(* C9 witness: with max_requests = 2, two calls of one identifier were      *)
(* admitted within one window, the third within it was denied, and a call   *)
(* after the window had moved on was admitted again                         *)
C9_Witness ==
    /\ limit.max_requests = 2
    /\ Len(log) = 4
    /\ \A k \in 1..4 : log[k].identifier = log[1].identifier
    /\ log[1].allowed /\ log[2].allowed /\ ~log[3].allowed /\ log[4].allowed
    /\ log[3].at - limit.window_seconds < log[1].at
    /\ log[4].at > log[3].at

(* C10 as claimed: under any interleaving of the steps of concurrent calls, *)
(* no admitted timestamp that is still within the window is missing from    *)
(* the identifier's list, and the calls admitted within one window never    *)
(* number more than max_requests                                            *)
C10_Serialized ==
    \A identifier \in Identifiers :
       /\ \A t \in 0..utcnow : Cardinality(AdmittedIn(identifier, t - limit.window_seconds, t)) <= limit.max_requests
       /\ Kept(identifier, utcnow - limit.window_seconds) >= Cardinality(AdmittedIn(identifier, utcnow - limit.window_seconds, utcnow))

-----------------------------------------------------------------------------
(* Properties of the authentication gateway (SpecGateway) *)

(* The credential is a bearer token that verifies as an access token at this *)
(* moment and whose subject is an identity that exists and is active         *)
Authentic(credentials) ==
    /\ credentials.kind = "jwt"
    /\ credentials.sig = "valid"
    /\ ~(credentials.exp < clock)
    /\ credentials.type = "access"
    /\ IntOf(credentials.sub) \in UserIds
    /\ users[IntOf(credentials.sub)].is_active

(* C11: get_current_user returns an identity iff a bearer credential is     *)
(* present, its token verifies as an access token, and the identity its     *)
(* subject names exists and is active; the identity returned is the token's *)
(* subject.  In every other case it fails with 401, never 400, 403 or 404.  *)
(* get_current_active_user adds nothing to it, and GET /me answers 200 with *)
(* the subject's identity or 401 accordingly.                               *)
C11_RequiredGateway ==
    /\ \A credentials \in GatewayCredentials :
          /\ Authentic(credentials) => get_current_user(credentials) = Resolved(IntOf(credentials.sub))
          /\ ~Authentic(credentials) =>
                /\ ~get_current_user(credentials).ok
                /\ get_current_user(credentials).error.status = 401
          /\ get_current_active_user(credentials) = get_current_user(credentials)
    /\ req.op = "get_current_user_info" =>
          /\ Authentic(req.credentials) => (resp.status = 200 /\ resp.body.id = IntOf(req.credentials.sub))
          /\ ~Authentic(req.credentials) => resp.status = 401

(* C11 witness: a validly signed, unexpired access token of an identity that *)
(* was deactivated was presented to GET /me and answered 401 'Inactive user' *)
C11_Witness ==
    /\ req.op = "get_current_user_info"
    /\ req.credentials.kind = "jwt"
    /\ req.credentials.sig = "valid"
    /\ req.credentials.type = "access"
    /\ ~(req.credentials.exp < clock)
    /\ IntOf(req.credentials.sub) \in UserIds
    /\ ~users[IntOf(req.credentials.sub)].is_active
    /\ resp = HTTPException(401, "Inactive user")

(* C12: get_optional_user never fails the request.  For a missing           *)
(* credential, an empty, invalid, expired or wrong-type token, an unknown   *)
(* subject or an inactive identity it returns None without raising, and it  *)
(* returns an identity exactly when get_current_user would, the same one.   *)
C12_OptionalGateway ==
    /\ \A credentials \in GatewayCredentials :
          /\ get_optional_user(credentials).ok
          /\ get_optional_user(credentials).id = IF get_current_user(credentials).ok THEN get_current_user(credentials).id ELSE 0
    /\ req.op = "get_optional_user" =>
          resp = Ok([shape |-> "OptionalUser", id |-> IF Authentic(req.credentials) THEN IntOf(req.credentials.sub) ELSE 0])

(* C12 witness: an expired access token with a valid signature was presented *)
(* to an endpoint with optional authentication, which went on with no        *)
(* identity                                                                  *)
C12_Witness ==
    /\ req.op = "get_optional_user"
    /\ req.credentials.kind = "jwt"
    /\ req.credentials.sig = "valid"
    /\ req.credentials.type = "access"
    /\ req.credentials.exp < clock
    /\ resp = Ok([shape |-> "OptionalUser", id |-> 0])

(* C13: get_current_superuser admits a request iff get_current_user         *)
(* succeeds and the identity has is_superuser = true.  An authenticated,    *)
(* active non-superuser gets 403 'Not enough permissions'; every            *)
(* authentication failure gets the 401 of get_current_user, decided before  *)
(* the superuser check, so an unauthenticated request is never answered 403.*)
C13_PrivilegedGateway ==
    /\ \A credentials \in GatewayCredentials :
          /\ (Authentic(credentials) /\ users[IntOf(credentials.sub)].is_superuser)
                => get_current_superuser(credentials) = Resolved(IntOf(credentials.sub))
          /\ (Authentic(credentials) /\ ~users[IntOf(credentials.sub)].is_superuser)
                => get_current_superuser(credentials) = Rejected(403, "Not enough permissions")
          /\ ~Authentic(credentials) =>
                /\ get_current_superuser(credentials) = get_current_user(credentials)
                /\ get_current_superuser(credentials).error.status = 401
    /\ req.op = "get_metrics" =>
          resp.status = IF ~Authentic(req.credentials) THEN 401
                        ELSE IF users[IntOf(req.credentials.sub)].is_superuser THEN 200 ELSE 403

(* C13 witness: an active non-superuser presented its valid access token to *)
(* GET /metrics and was answered 403                                        *)
C13_Witness ==
    /\ req.op = "get_metrics"
    /\ Authentic(req.credentials)
    /\ ~users[IntOf(req.credentials.sub)].is_superuser
    /\ resp = HTTPException(403, "Not enough permissions")

-----------------------------------------------------------------------------
(* Specification of the password policy: validate_password_strength applied *)
(* to passwords of every length up to MaxPad + MaxCore and every mix of the *)
(* character classes                                                        *)

MaxPad == 8
MaxCore == 4

(* One character of each class, and the space, which is of none *)
CoreChars == {"A", "a", "1", "!"}

RECURSIVE Pad(_)
Pad(k) == IF k = 0 THEN <<>> ELSE <<" ">> \o Pad(k - 1)

RECURSIVE Cores(_)
Cores(n) == IF n = 0 THEN {<<>>} ELSE Cores(n - 1) \cup {Append(w, c) : w \in {v \in Cores(n - 1) : Len(v) = n - 1}, c \in CoreChars}

PolicyInputs == {Pad(k) \o w : k \in 0..MaxPad, w \in Cores(MaxCore)}

ValidatePasswordStrength(password) ==
    /\ Idle
    /\ req' = [op |-> "validate_password_strength", password |-> password]
    /\ resp' = Ok([shape |-> "validation", is_valid |-> validate_password_strength(password).is_valid, message |-> validate_password_strength(password).message])
    /\ UNCHANGED <<users, accounts, clock, nextToken, held, usedTokens, rlVars, resets>>

NextPolicy ==
    \/ \E password \in PolicyInputs : ValidatePasswordStrength(password)
    \/ ClientReads

SpecPolicy == Init /\ [][NextPolicy]_vars

-----------------------------------------------------------------------------
(* Properties of the password policy (SpecPolicy) *)

(* The five rules, in the order length, uppercase, lowercase, digit, special *)
RuleHolds(i, p) ==
    CASE i = 1 -> Len(p) >= 8
      [] i = 2 -> \E k \in DOMAIN p : p[k] \in Upper
      [] i = 3 -> \E k \in DOMAIN p : p[k] \in Lower
      [] i = 4 -> \E k \in DOMAIN p : p[k] \in Digit
      [] i = 5 -> \E k \in DOMAIN p : p[k] \in special_chars

RuleMessage == <<"Password must be at least 8 characters long", "Password must contain at least one uppercase letter", "Password must contain at least one lowercase letter", "Password must contain at least one digit", "Password must contain at least one special character">>

FailedRules(p) == {i \in 1..5 : ~RuleHolds(i, p)}

(* C14: validate_password_strength(p) reports valid iff p satisfies all five *)
(* rules; when p is invalid the reason is that of the first failing rule in  *)
(* the order length, uppercase, lowercase, digit, special.                   *)
C14_PasswordPolicy ==
    req.op = "validate_password_strength" =>
        /\ resp.body.is_valid <=> FailedRules(req.password) = {}
        /\ FailedRules(req.password) # {} =>
              \E i \in FailedRules(req.password) :
                 /\ \A j \in FailedRules(req.password) : i <= j
                 /\ resp.body.message = RuleMessage[i]

(* C14 witness: a password of 8 or more characters with an uppercase and a   *)
(* lowercase letter but neither digit nor special character was refused for  *)
(* its missing digit, the earlier of the two failing rules                   *)
C14_Witness ==
    /\ req.op = "validate_password_strength"
    /\ FailedRules(req.password) = {4, 5}
    /\ resp.body = [shape |-> "validation", is_valid |-> FALSE, message |-> "Password must contain at least one digit"]

-----------------------------------------------------------------------------
(* Properties of registration (Spec) *)

(* C15 as claimed: POST /register with a password shorter than 8 characters *)
(* and an unused email answers 400 with the policy's message 'Password must *)
(* be at least 8 characters long', and creates no identity                  *)
C15_RegisterShortPassword ==
    [][\A email \in Emails, password \in Passwords :
          (Register(email, password) /\ Len(password) < 8 /\ UserByEmail(email) = 0)
          => /\ resp' = HTTPException(400, "Password must be at least 8 characters long")
             /\ users' = users]_vars

-----------------------------------------------------------------------------
(* Specification of registration with addresses that differ in letter case. *)
(* An address is what the client sends, split at the @.                     *)

Addresses == [local : {"test", "Test"}, domain : {"example.com", "EXAMPLE.COM"}]

(* str.lower() on the strings of this specification *)
str_lower(s) ==
    CASE s = "Test" -> "test"
      [] s = "EXAMPLE.COM" -> "example.com"
      [] s = "Test@example.com" -> "test@example.com"
      [] OTHER -> s

(* pydantic's EmailStr: the validated value keeps the local part as sent *)
(* and has the domain in lower case                                      *)
EmailStr(address) == address.local \o "@" \o str_lower(address.domain)

NextRegister ==
    \/ \E address \in Addresses, password \in Passwords : Register(EmailStr(address), password)
    \/ \E address \in Addresses, password \in Passwords : Login(EmailStr(address), password)
    \/ ClientReads

SpecRegister == Init /\ [][NextRegister]_vars

(* C17 as claimed: no two identities ever have emails that are equal up to  *)
(* letter case                                                              *)
C17_EmailUniqueIgnoringCase ==
    \A i, j \in UserIds : str_lower(users[i].email) = str_lower(users[j].email) => i = j

-----------------------------------------------------------------------------
(* Properties of POST /change-password (Spec) and POST /refresh (SpecTokens) *)

(* C18 as claimed: POST /change-password whose current_password does not    *)
(* verify against the caller's stored hash answers 400 'Current password is *)
(* incorrect' and leaves the users table unchanged, whether the new         *)
(* password is weak or strong                                               *)
C18_WrongCurrentPassword ==
    [][\A credentials \in Credentials, current_password, new_password \in Passwords :
          ( /\ ChangePassword(credentials, current_password, new_password)
            /\ get_current_active_user(credentials).ok
            /\ users[get_current_active_user(credentials).id].password_hash # get_password_hash(current_password) )
          => /\ resp' = HTTPException(400, "Current password is incorrect")
             /\ users' = users]_vars

(* The refresh tokens POST /refresh has accepted so far *)
Accepted == {e.token : e \in usedTokens.refresh}

(* C19: refresh tokens are not rotated or invalidated on use.  A refresh    *)
(* token POST /refresh has accepted is accepted by every later POST         *)
(* /refresh made while the clock is not past its exp and its subject exists *)
(* and is active; the call mints a new access token for the subject,        *)
(* changes no identity, and every token a client holds verifies after the   *)
(* call exactly as it did before.                                           *)
C19_RefreshNotRotated ==
    [][\A credentials \in Credentials :
          Refresh(credentials) =>
             /\ ( /\ credentials \in Accepted
                  /\ ~(credentials.exp < clock)
                  /\ IntOf(credentials.sub) \in UserIds
                  /\ users[IntOf(credentials.sub)].is_active )
                => /\ resp'.status = 200
                   /\ resp'.body.access_token = create_access_token(IntOf(credentials.sub), JWT_EXPIRE_MINUTES)
             /\ users' = users
             /\ \A t \in held :
                   /\ t \in held'
                   /\ verify_token(t, t.type)' = verify_token(t, t.type)]_vars

(* C19 witness: one refresh token has been accepted by POST /refresh at two *)
(* different times, the second of them by the request in flight             *)
C19_Witness ==
    /\ req.op = "refresh"
    /\ resp.status = 200
    /\ [token |-> req.credentials, at |-> clock] \in usedTokens.refresh
    /\ \E e \in usedTokens.refresh : e.token = req.credentials /\ e.at < clock

-----------------------------------------------------------------------------
(* Properties of account names (SpecAccounts) *)

(* C20: for every user, in every state reachable by create_account,         *)
(* update_account (rename and is_active changes, PATCH activate included),  *)
(* delete_account and hard_delete_account, no two active accounts of that   *)
(* user have the same name.                                                 *)
C20_ActiveNamesUnique ==
    \A a \in accounts, b \in accounts :
        (a.user_id = b.user_id /\ a.name = b.name /\ a.is_active /\ b.is_active) => a.id = b.id

-----------------------------------------------------------------------------
(* Specification of the lifecycle of one identity's password with every    *)
(* endpoint of the auth router; the registrations are those that fail: the *)
(* email is taken or the password is rejected by the policy                *)

(* A password in use, a strong one, and one the policy rejects *)
LifecyclePasswords == {TestPassword, Strong1, wrongpassword}

NextLifecycle ==
    \/ \E email \in Emails : Register(email, wrongpassword)
    \/ \E email \in Emails, password \in LifecyclePasswords : Login(email, password)
    \/ \E credentials \in Credentials : Refresh(credentials)
    \/ \E credentials \in Credentials : Logout(credentials)
    \/ \E credentials \in Credentials : GetCurrentUserInfo(credentials)
    \/ \E credentials \in Credentials, email \in Emails, password \in LifecyclePasswords : UpdateCurrentUser(credentials, email, password)
    \/ \E credentials \in Credentials, current_password, new_password \in LifecyclePasswords : ChangePassword(credentials, current_password, new_password)
    \/ \E email \in Emails : RequestPasswordReset(email)
    \/ \E token \in 1..MaxResetTokens, new_password \in LifecyclePasswords : ResetPassword(token, new_password)
    \/ \E credentials \in Credentials : TokenVerify(credentials)
    \/ Tick
    \/ ClientReads

SpecLifecycle == Init /\ [][NextLifecycle]_vars

(* C21: once an identity exists its password_hash changes only in a step    *)
(* that is a successful POST /change-password by that identity or a         *)
(* successful POST /reset-password, and then to the hash of the request's   *)
(* new password; login, refresh, logout, GET /me, PUT /me, request-password-*)
(* reset, token verification and every failed request leave it as it was.   *)
C21_PasswordHashFrame ==
    [][\A u \in UserIds :
          users'[u].password_hash # users[u].password_hash
          => /\ req'.op \in {"change_password", "reset_password"}
             /\ resp'.status = 200
             /\ users'[u].password_hash = get_password_hash(req'.new_password)
             /\ req'.op = "change_password" => get_current_active_user(req'.credentials).id = u
             /\ req'.op = "reset_password" => users[u].password_reset_token = req'.token]_vars

(* C21 witness: a PUT /me that carried a password other than the caller's   *)
(* was answered 200 and changed the caller's email, and the caller's hash   *)
(* is still that of the password it registered with                         *)
C21_Witness ==
    /\ req.op = "update_current_user"
    /\ resp.status = 200
    /\ resp.body.email = "new@example.com"
    /\ users[1].email = "new@example.com"
    /\ get_password_hash(req.password) # users[1].password_hash
    /\ users[1].password_hash = get_password_hash(TestPassword)

-----------------------------------------------------------------------------
(* The ownership guard of app.core.deps and its specification *)

(* account_access_checker of check_account_access(account_id) *)
check_account_access(account_id, credentials) ==
    LET current_user == get_current_user(credentials) IN
    IF ~current_user.ok THEN current_user
    ELSE IF get_account(account_id, current_user.id) = None /\ ~users[current_user.id].is_superuser
       THEN Rejected(403, "Access denied to this account")
    ELSE current_user

(* A request to an endpoint that declares Depends(check_account_access(id)) *)
(* and answers with the identity the guard resolved                         *)
CheckAccountAccess(credentials, account_id) ==
    /\ Idle
    /\ req' = [op |-> "check_account_access", credentials |-> credentials, account_id |-> account_id]
    /\ LET current_user == check_account_access(account_id, credentials) IN
       resp' = IF ~current_user.ok THEN current_user.error
               ELSE Ok([shape |-> "UserInDB", id |-> current_user.id])
    /\ UNCHANGED <<users, accounts, clock, nextToken, held, usedTokens, rlVars, resets>>

NextGuard ==
    \/ \E email \in AccountEmails, password \in LoginPasswords : Login(email, password)
    \/ \E credentials \in Credentials, name \in Names : CreateAccount(credentials, name)
    \/ \E credentials \in Credentials, account_id \in 1..(MaxAccounts + 1), hard_delete \in BOOLEAN : DeleteAccount(credentials, account_id, hard_delete)
    \/ \E credentials \in Credentials, account_id \in 1..(MaxAccounts + 1) : CheckAccountAccess(credentials, account_id)
    \/ ClientReads

SpecGuard == InitAccounts /\ [][NextGuard]_vars

(* C22 as claimed: when the identity the guard resolves is not a superuser  *)
(* and owns no account with the given id, the guard fails with 404, never   *)
(* with 403                                                                 *)
C22_GuardNotFound ==
    [][\A credentials \in Credentials, account_id \in 1..(MaxAccounts + 1) :
          ( /\ CheckAccountAccess(credentials, account_id)
            /\ get_current_user(credentials).ok
            /\ ~users[get_current_user(credentials).id].is_superuser
            /\ get_account(account_id, get_current_user(credentials).id) = None )
          => resp'.status = 404]_vars

-----------------------------------------------------------------------------
(* Specification of password reset over a span of time longer than the     *)
(* life of a reset token                                                   *)

NextExpiry ==
    \/ \E email \in Emails, password \in Passwords : Login(email, password)
    \/ \E email \in Emails : RequestPasswordReset(email)
    \/ \E token \in 1..MaxResetTokens, new_password \in Passwords : ResetPassword(token, new_password)
    \/ Tick
    \/ TickWeek
    \/ ClientReads

SpecExpiry == Init /\ [][NextExpiry]_vars

(* C23 as claimed: POST /reset-password presenting a stored token whose     *)
(* password_reset_expires lies in the past fails with 400 'Invalid reset    *)
(* token', as for an unknown token, and leaves every password_hash          *)
(* unchanged (a new password shorter than 8 characters is refused with 422  *)
(* before the handler runs)                                                 *)
C23_ExpiredTokenRejected ==
    [][\A token \in 1..MaxResetTokens, new_password \in Passwords :
          ( /\ ResetPassword(token, new_password)
            /\ UserByResetToken(token) # 0
            /\ users[UserByResetToken(token)].password_reset_expires < clock )
          => /\ resp' = IF SchemaPasswordOk(new_password) THEN HTTPException(400, "Invalid reset token") ELSE RequestValidationError
             /\ \A u \in UserIds : users'[u].password_hash = users[u].password_hash]_vars

-----------------------------------------------------------------------------
(* Properties of the reset token's expiry and of its clearing (Spec) *)

(* C24 as claimed: at every time of day, POST /request-password-reset for   *)
(* the email of an existing identity completes without error, stores the    *)
(* token it drew and sets password_reset_expires to exactly one hour after  *)
(* the time of the request                                                  *)
C24_ExpiryOneHourLater ==
    [][\A email \in Emails :
          (RequestPasswordReset(email) /\ UserByEmail(email) # 0)
          => /\ resp'.status = 200
             /\ users'[UserByEmail(email)].password_reset_token = nextToken
             /\ users'[UserByEmail(email)].password_reset_expires = clock + 60]_vars

(* C26 as claimed: after any POST /reset-password that presents the stored  *)
(* token of an identity, also one rejected because the new password fails   *)
(* the strength policy, that identity's password_reset_token and            *)
(* password_reset_expires are null and no identity holds the token          *)
C26_ClearedOnUse ==
    [][\A token \in 1..MaxResetTokens, new_password \in Passwords :
          ( /\ ResetPassword(token, new_password)
            /\ UserByResetToken(token) # 0
            /\ SchemaPasswordOk(new_password) )
          => /\ users'[UserByResetToken(token)].password_reset_token = NULL
             /\ users'[UserByResetToken(token)].password_reset_expires = NoTime
             /\ \A u \in UserIds : users'[u].password_reset_token # token]_vars

-----------------------------------------------------------------------------
(* Properties of deactivation (SpecTokens) *)

(* The tokens of type token_type that verify now and whose subject is u *)
LiveTokens(u, token_type) ==
    {t \in held : verify_token(t, token_type).ok /\ IntOf(verify_token(t, token_type).sub) = u}

(* C25: is_active is read on every request.  Once deactivate_user(u) has    *)
(* committed, a request authenticated with an unexpired access token of u   *)
(* is rejected with 401 and a POST /refresh with an unexpired refresh token *)
(* of u is rejected with 401, for as long as u is inactive; once            *)
(* activate_user(u) has committed the same tokens are accepted again.       *)
C25_ActiveRechecked ==
    [][/\ \A credentials \in Credentials :
             (TokenVerify(credentials) /\ verify_token(credentials, "access").ok /\ IntOf(credentials.sub) \in UserIds)
             => resp'.status = IF users[IntOf(credentials.sub)].is_active THEN 200 ELSE 401
       /\ \A credentials \in Credentials :
             (Refresh(credentials) /\ verify_token(credentials, "refresh").ok /\ IntOf(credentials.sub) \in UserIds)
             => resp'.status = IF users[IntOf(credentials.sub)].is_active THEN 200 ELSE 401
       /\ \A u \in UserIds :
             DeactivateUser(u)
             => /\ ~users'[u].is_active
                /\ \A t \in LiveTokens(u, "access") : get_current_user(t)' = Rejected(401, "Inactive user")
       /\ \A u \in UserIds :
             ActivateUser(u)
             => /\ users'[u].is_active
                /\ \A t \in LiveTokens(u, "access") : get_current_user(t)' = Resolved(u)]_vars

(* C25 witness: an unexpired refresh token of an existing identity was      *)
(* presented to POST /refresh while the identity was deactivated, and was   *)
(* rejected with 401                                                        *)
C25_Witness ==
    /\ req.op = "refresh"
    /\ verify_token(req.credentials, "refresh").ok
    /\ IntOf(req.credentials.sub) \in UserIds
    /\ ~users[IntOf(req.credentials.sub)].is_active
    /\ resp = HTTPException(401, "User not found or inactive")

-----------------------------------------------------------------------------
(* Properties of login after a change of password (Spec) *)

(* The response of POST /login for (email, password), were it sent now *)
LoginResponse(email, password) ==
    LET user == UserByEmail(email) IN
    IF ~SchemaPasswordOk(password) THEN RequestValidationError
    ELSE IF user = 0 \/ ~verify_password(password, users[user].password_hash)
       THEN HTTPException(401, "Incorrect email or password")
    ELSE IF ~users[user].is_active THEN HTTPException(401, "User account is inactive")
    ELSE Ok(NewTokens(user))

(* After a step that set new password n for u in place of o: a login with  *)
(* o is refused with 401 and a login with n succeeds                        *)
Replaced(u, o, n) ==
    o # n => /\ LoginResponse(users[u].email, n)'.status = 200
             /\ LoginResponse(users[u].email, o)' = HTTPException(401, "Incorrect email or password")

(* C27: after a successful change-password or reset-password that sets new  *)
(* password n for identity u, n different from the previous password o,     *)
(* POST /login with (u.email, o) fails with 401 and POST /login with        *)
(* (u.email, n) succeeds, and so in every state until the next successful   *)
(* change or reset for u: the status POST /login answers for u's email and  *)
(* a given password is the same before and after every step that is not a   *)
(* successful change or reset.                                              *)
C27_OldPasswordRefused ==
    [][/\ \A email \in Emails, password \in Passwords :
             Login(email, password) => resp' = LoginResponse(email, password)
       /\ \A credentials \in Credentials, current_password, new_password \in Passwords, u \in UserIds :
             ( /\ ChangePassword(credentials, current_password, new_password)
               /\ resp'.status = 200
               /\ u = get_current_active_user(credentials).id )
             => Replaced(u, current_password, new_password)
       /\ \A token \in 1..MaxResetTokens, new_password \in Passwords, u \in UserIds, o \in Passwords :
             ( /\ ResetPassword(token, new_password)
               /\ resp'.status = 200
               /\ u = UserByResetToken(token)
               /\ verify_password(o, users[u].password_hash) )
             => Replaced(u, o, new_password)
       /\ ~(req'.op \in {"change_password", "reset_password"} /\ resp'.status = 200)
             => \A u \in UserIds, password \in Passwords :
                   LoginResponse(users[u].email, password)'.status = LoginResponse(users[u].email, password).status]_vars

(* C27 witness: the identity that registered with TestPassword has another  *)
(* password now, and a login with TestPassword was answered 401             *)
C27_Witness ==
    /\ req.op = "login"
    /\ req.email = users[1].email
    /\ req.password = TestPassword
    /\ users[1].password_hash = get_password_hash(Strong1)
    /\ resp = HTTPException(401, "Incorrect email or password")

-----------------------------------------------------------------------------
(* Specification of registration and profile update *)

NextProfile ==
    \/ \E email \in Emails : Register(email, Strong1)
    \/ \E email \in Emails, password \in LoginPasswords : Login(email, password)
    \/ \E credentials \in Credentials, email \in Emails, password \in LoginPasswords : UpdateCurrentUser(credentials, email, password)
    \/ \E credentials \in Credentials : GetCurrentUserInfo(credentials)
    \/ ClientReads

SpecProfile == Init /\ [][NextProfile]_vars

(* C28: email uniqueness is preserved by profile updates.  After every step *)
(* of POST /register and PUT /me no two identities have the same email, and *)
(* a PUT /me of an authenticated identity that names the email of another   *)
(* existing identity leaves the users table as it was.                      *)
C28_ProfileKeepsEmailUnique ==
    [][/\ \A i, j \in DOMAIN users' : users'[i].email = users'[j].email => i = j
       /\ \A credentials \in Credentials, email \in Emails, password \in LoginPasswords :
             ( /\ UpdateCurrentUser(credentials, email, password)
               /\ get_current_active_user(credentials).ok
               /\ \E u \in UserIds : u # get_current_active_user(credentials).id /\ users[u].email = email )
             => users' = users]_vars

(* C28 witness: two identities exist, one of them sent a PUT /me naming the *)
(* email of the other, the request failed and both still have the emails    *)
(* they had                                                                 *)
C28_Witness ==
    /\ req.op = "update_current_user"
    /\ get_current_active_user(req.credentials).ok
    /\ Len(users) = 2
    /\ \E u \in UserIds : u # get_current_active_user(req.credentials).id /\ users[u].email = req.email
    /\ users[1].email # users[2].email
    /\ resp = InternalServerError

-----------------------------------------------------------------------------
(* Properties of repeated reset requests (Spec) *)

(* C29 as claimed: when POST /request-password-reset is issued for an       *)
(* identity that holds a reset token not yet used, the earlier token is     *)
(* overwritten by the token the request draws, so that a reset-password     *)
(* presenting the earlier token fails as 'Invalid reset token' and the      *)
(* newly issued token is the one and only stored for the identity           *)
C29_EarlierTokenOverwritten ==
    [][\A email \in Emails, u \in UserIds, earlier, issued \in 1..MaxResetTokens :
          ( /\ RequestPasswordReset(email)
            /\ u = UserByEmail(email)
            /\ users[u].password_reset_token = earlier
            /\ issued = nextToken )
          => /\ users'[u].password_reset_token = issued
             /\ UserByResetToken(earlier)' = 0
             /\ UserByResetToken(issued)' = u]_vars

-----------------------------------------------------------------------------
(* POST /reset-password handled for several requests at the same time, each *)
(* with the Session get_db gave it.  A step is one statement the handler    *)
(* sends to the database: the SELECT by token of the endpoint, and the      *)
(* UPDATE by primary key that UserService.reset_password commits.           *)

(* The request arrives; PasswordReset validates the body *)
BeginReset(h, token, new_password) ==
    /\ resets[h].pc = "idle"
    /\ resets' = [resets EXCEPT ![h] =
          IF SchemaPasswordOk(new_password)
             THEN [pc |-> "lookup", token |-> token, new_password |-> new_password, user |-> 0, resp |-> NoResponse]
             ELSE [pc |-> "done", token |-> token, new_password |-> new_password, user |-> 0, resp |-> RequestValidationError]]
    /\ UNCHANGED <<users, accounts, clock, nextToken, usedTokens, held, req, resp, rlVars>>

(* db.query(User).filter(User.password_reset_token == token).first(), then *)
(* validate_password_strength                                              *)
LookupReset(h) ==
    /\ resets[h].pc = "lookup"
    /\ LET user == UserByResetToken(resets[h].token) IN
       resets' = [resets EXCEPT ![h] =
          IF user = 0
             THEN [@ EXCEPT !.pc = "done", !.resp = HTTPException(400, "Invalid reset token")]
          ELSE IF ~validate_password_strength(resets[h].new_password).is_valid
             THEN [@ EXCEPT !.pc = "done", !.resp = HTTPException(400, validate_password_strength(resets[h].new_password).message)]
          ELSE [@ EXCEPT !.pc = "reset", !.user = user]]
    /\ UNCHANGED <<users, accounts, clock, nextToken, usedTokens, held, req, resp, rlVars>>

(* user_service.reset_password(user.id, new_password) and the response *)
CommitReset(h) ==
    /\ resets[h].pc = "reset"
    /\ users' = reset_password(resets[h].user, resets[h].new_password)
    /\ usedTokens' = [usedTokens EXCEPT !.reset = @ \cup {resets[h].token}]
    /\ resets' = [resets EXCEPT ![h] = [@ EXCEPT !.pc = "done", !.resp = Message("Password reset successfully")]]
    /\ UNCHANGED <<accounts, clock, nextToken, held, req, resp, rlVars>>

(* The response is sent *)
ReturnReset(h) ==
    /\ resets[h].pc = "done"
    /\ resets' = [resets EXCEPT ![h] = NoReset]
    /\ UNCHANGED <<users, accounts, clock, nextToken, usedTokens, held, req, resp, rlVars>>

NextConcurrentReset ==
    \/ \E email \in Emails : RequestPasswordReset(email)
    \/ ClientReads
    \/ \E h \in Handlers, token \in 1..MaxResetTokens, new_password \in Passwords : BeginReset(h, token, new_password)
    \/ \E h \in Handlers : LookupReset(h)
    \/ \E h \in Handlers : CommitReset(h)
    \/ \E h \in Handlers : ReturnReset(h)

SpecConcurrentReset == Init /\ [][NextConcurrentReset]_vars

(* C30 as claimed: of two POST /reset-password requests that present the    *)
(* same token and are handled at the same time, at most one replaces the    *)
(* password and answers 200                                                 *)
C30_SingleUseUnderConcurrency ==
    \A g, h \in Handlers :
        ( /\ g # h
          /\ resets[g].pc = "done"
          /\ resets[h].pc = "done"
          /\ resets[g].token = resets[h].token )
        => ~(resets[g].resp.status = 200 /\ resets[h].resp.status = 200)

=============================================================================
